---- MODULE Spec2Model ----
(***************************************************************************)
(* The gauge widget of sysmon-pytk: Meter (widgets/meter.py) and the       *)
(* self-polling UpdatingMeter (widgets/meters/updating_meter.py), the      *)
(* application window (application.py), the settings and disk usage       *)
(* dialogs (modals/) and the usage colours of the command-line monitor.    *)
(*                                                                         *)
(* Numbers.  The program computes with Python floats; the model computes   *)
(* with exact rationals (a fraction is a record [n, d] in lowest terms     *)
(* with d > 0).  The value and percentage domains below are chosen so that *)
(* the float computation of meter.py:233-246 and the exact one agree on    *)
(* every comparison the model makes.                                       *)
(*                                                                         *)
(* Specifications.                                                         *)
(*   Spec     - a plain Meter: Init is the state at the end of             *)
(*              Meter.__init__; set_value and update_for_dark_mode act.    *)
(*   SpecPoll - an UpdatingMeter: InitPoll is the state after lines 49-52  *)
(*              of UpdatingMeter.__init__ (Meter built, _update_job None); *)
(*              the rest of the constructor, the refresh timer, the theme  *)
(*              event and the <Destroy> handler act.                       *)
(*   SpecLife - SpecPoll with callers that go on calling set_value and     *)
(*              update_for_dark_mode after the widget is destroyed.        *)
(*   SpecWindow - the polling gauge together with NumOthers other polling  *)
(*              gauges in one window, all run by the same event loop.      *)
(*   SpecApp  - the application window: its refresh loop, Restart, and the  *)
(*              settings dialog with the change events it sends.           *)
(*   SpecDisk - the disk usage dialog while drives are mounted and         *)
(*              unmounted.                                                 *)
(*   SpecView - one disk usage shown by the disk gauge, the disk usage     *)
(*              dialog and the command-line monitor.                       *)
(*   SpecScale - a plain Meter built with 1..MaxDivisions divisions.       *)
(*   SpecLabels - the min/max labels of a Meter whose bounds are not whole *)
(*              numbers.                                                   *)
(***************************************************************************)
EXTENDS Integers, Sequences, FiniteSets, TLC

(***************************************************************************)
(* Bounds of the model.                                                    *)
(***************************************************************************)
\* values passed to set_value: 10*k - 20 for k in 0..MaxValueIndex, and 85, 95
MaxValueIndex == 14
\* number of firings of the refresh timer that are explored
MaxTicks == 2
\* number of polling gauges in the window besides the one modelled in full
NumOthers == 1
\* number of restarts of the application window that are explored
MaxRestarts == 3
\* largest number of divisions a gauge is built with
MaxDivisions == 10
\* the bounds of the labelled range are k/2 for -MaxHalves <= k <= MaxHalves
MaxHalves == 5

(***************************************************************************)
(* Exact rational arithmetic standing in for Python floats.                *)
(***************************************************************************)
Abs(x) == IF x < 0 THEN -x ELSE x

RECURSIVE GCD(_, _)
GCD(a, b) == IF b = 0 THEN a ELSE GCD(b, a % b)

\* the fraction n/d (d # 0) in lowest terms with a positive denominator
Frac(n, d) ==
    LET g == GCD(Abs(n), Abs(d))
        s == IF d < 0 THEN -1 ELSE 1
    IN  [n |-> (s * n) \div g, d |-> (s * d) \div g]

FInt(i) == [n |-> i, d |-> 1]
FAdd(a, b) == Frac(a.n * b.d + b.n * a.d, a.d * b.d)
FSub(a, b) == Frac(a.n * b.d - b.n * a.d, a.d * b.d)
FMul(a, b) == Frac(a.n * b.n, a.d * b.d)
FLt(a, b) == a.n * b.d < b.n * a.d
FGt(a, b) == FLt(b, a)

(***************************************************************************)
(* Meter: class constants.                                                 *)
(***************************************************************************)
GREEN == "#0a0"
YELLOW == "#dd0"
RED == "#d00"
BLUE == "#00a"

START_ANGLE == 36
EXTENT_ANGLE == 180 - 2 * START_ANGLE

\* Optional[str] of _update_job: None, or the one handle it holds
None == {}
Some(x) == {x}

(***************************************************************************)
(* Inputs.                                                                 *)
(***************************************************************************)
Values == {10 * k - 20 : k \in 0..MaxValueIndex} \cup {85, 95}

\* (min_value, max_value) pairs; the code accepts all of them
Ranges == {<<0, 100>>, <<-10, 10>>, <<20, 120>>, <<0, 0>>, <<100, 0>>}

\* zone percentages handed to blue=, yellow=, red=
Percents == {0, 15, 50}

MeterConfigs ==
    {[kind |-> "meter", label |-> "", divisions |-> 10,
      min_value |-> r[1], max_value |-> r[2], unit |-> "%",
      blue |-> b, yellow |-> y, red |-> rd] :
        r \in Ranges, b \in Percents, y \in Percents, rd \in Percents}

\* the disk usage levels shared by the gauge, the dialog and the command line
DISK_ALERT_LEVEL == 80
DISK_WARN_LEVEL == 60

\* the keyword arguments of CpuMeter/RamMeter, TempMeter and DiskMeter
PollConfigs ==
    {[kind |-> "cpu", label |-> "CPU Usage", divisions |-> 10,
      min_value |-> 0, max_value |-> 100, unit |-> "%",
      blue |-> 0, yellow |-> 15, red |-> 15],
     [kind |-> "ram", label |-> "RAM Usage", divisions |-> 10,
      min_value |-> 0, max_value |-> 100, unit |-> "%",
      blue |-> 0, yellow |-> 15, red |-> 15],
     [kind |-> "temp", label |-> "Temperature", divisions |-> 10,
      min_value |-> 0, max_value |-> 100, unit |-> "C",
      blue |-> 15, yellow |-> 15, red |-> 15],
     [kind |-> "disk", label |-> "Disk Usage: /", divisions |-> 10,
      min_value |-> 0, max_value |-> 100, unit |-> "%",
      blue |-> 0, yellow |-> DISK_ALERT_LEVEL - DISK_WARN_LEVEL,
      red |-> 100 - DISK_ALERT_LEVEL]}

\* what one call of get_value does: return a float, or raise
ProviderValues == {10, 50, 90}
Outcomes ==
    {[ok |-> TRUE, val |-> v] : v \in ProviderValues} \cup {[ok |-> FALSE, val |-> 0]}

VARIABLES
    phase,          \* "constructing" | "alive" | "init_failed" | "destroyed"
    min_value,      \* Meter._min_value
    max_value,      \* Meter._max_value
    unit,           \* Meter._unit
    range,          \* Meter.range: [blue, yellow, red]
    divisions,      \* Meter._divisions
    dark,           \* whether the current ttk theme is dark
    palette,        \* the colours check_dark_mode stored on the Meter
    var,            \* Meter.var, the DoubleVar holding the current value
    meter,          \* canvas item canvas_objects.meter: [start, fill, outline]
    current_text,   \* text of canvas item canvas_objects.current: <<value, unit>>
    arcs,           \* the colour scale arcs, in creation order
    labels,         \* the text items label1, min_value, max_value: [text, fill],
                    \* and the fill of the item `current`
    wedges,         \* the tick wedges canvas_objects.wedges: [start, extent, outline]
    hub,            \* the items inset [fill, outline] and inset_border [outline]
    background,     \* the canvas background
    kind,           \* which class the gauge is: "meter", "cpu", "ram", "temp", "disk"
    click_bound,    \* <Button-1> is bound to on_click
    cursor,         \* the cursor option of the widget
    tooltip,        \* a ToolTip is attached
    others,         \* the other polling gauges of the window, by number:
                    \* [phase, var, update_job, failed]
    other_timers,   \* the `after` callbacks Tk holds for them: [h, g]
    app,            \* the Application window (application.py)
    modal,          \* the SettingsDialog opened from it (a ModalDialog)
    disk_dialog,    \* a DiskUsageDialog and the mount points of the system
    view,           \* a disk usage figure and a pair of range bounds, with
                    \* what the views of the program show for them
    update_job,     \* UpdatingMeter._update_job
    timers,         \* handles of the `after` callbacks Tk has pending
    after_seq,      \* the number Tk gives the next `after` handle
    calls,          \* the calls of get_value and set_value made by update_widget
    ticks,          \* how many times the refresh timer has fired
    provider_failed,\* whether a get_value call has raised
    last_op,        \* the operation that ran last
    last_error,     \* the exception that operation reported, or "none"
    last_arg,       \* the argument of the latest set_value call
    same_again      \* the latest two operations were set_value(x), set_value(x)

vars == <<phase, min_value, max_value, unit, range, divisions, dark, palette, var, meter,
          current_text, arcs, labels, wedges, hub, background, kind,
          click_bound, cursor, tooltip, others, other_timers, app, modal,
          disk_dialog, view, update_job, timers, after_seq, calls, ticks,
          provider_failed, last_op, last_error, last_arg, same_again>>

config_vars == <<min_value, max_value, unit, range, divisions, arcs, kind>>
\* the canvas items whose colours follow the theme
decor_vars == <<labels, wedges, hub, background>>
\* what the clickable predicate decided
click_vars == <<click_bound, cursor, tooltip>>
\* the other gauges of the window
other_vars == <<others, other_timers>>
\* the application window, its dialogs and the views
app_vars == <<app, modal, disk_dialog, view>>
poll_vars == <<update_job, timers, after_seq, calls, ticks, provider_failed>>

(***************************************************************************)
(* Meter (widgets/meter.py).                                               *)
(***************************************************************************)
\* StyleManager.test_dark_mode picks by the darkness of the theme's background
test_dark_mode(d, trueval, falseval) == IF d THEN trueval ELSE falseval

\* the colours check_dark_mode stores; text colour and background are looked
\* up from the theme, the needle colours are fixed pairs
check_dark_mode(d) ==
    [text_color   |-> test_dark_mode(d, "TLabel.foreground.dark", "TLabel.foreground.light"),
     background   |-> test_dark_mode(d, "TLabel.background.dark", "TLabel.background.light"),
     meter_color  |-> test_dark_mode(d, "#cccccc", "#666666"),
     meter_red    |-> test_dark_mode(d, "#ff2222", "#cc0000"),
     meter_yellow |-> test_dark_mode(d, "#ffff22", "#cccc00"),
     meter_blue   |-> test_dark_mode(d, "#2222ff", "#0000cc")]

\* seeded fault: the percentage is taken of the half circle
_percent_to_degrees_of_half_circle(pct) == Frac(180 * pct, 100)

_percent_to_degrees(pct) == Frac(EXTENT_ANGLE * pct, 100)

\* seeded fault: the blue arc is laid from START_ANGLE forwards, over the
\* high-value end
_add_gauge_lines_blue_at_high_end(red, yellow, blue) ==
    <<[outline |-> GREEN, start |-> FInt(START_ANGLE), extent |-> FInt(EXTENT_ANGLE)]>>
    \o (IF red > 0
        THEN <<[outline |-> RED, start |-> FInt(START_ANGLE),
                extent |-> _percent_to_degrees(red)]>>
        ELSE <<>>)
    \o (IF yellow > 0
        THEN <<[outline |-> YELLOW,
                start |-> FAdd(_percent_to_degrees(red), FInt(START_ANGLE)),
                extent |-> _percent_to_degrees(yellow)]>>
        ELSE <<>>)
    \o (IF blue > 0
        THEN <<[outline |-> BLUE, start |-> FInt(START_ANGLE),
                extent |-> _percent_to_degrees(blue)]>>
        ELSE <<>>)

\* the colour scale arcs created by _add_gauge_lines, in creation order
_add_gauge_lines(red, yellow, blue) ==
    <<[outline |-> GREEN, start |-> FInt(START_ANGLE), extent |-> FInt(EXTENT_ANGLE)]>>
    \o (IF red > 0
        THEN <<[outline |-> RED, start |-> FInt(START_ANGLE),
                extent |-> _percent_to_degrees(red)]>>
        ELSE <<>>)
    \o (IF yellow > 0
        THEN <<[outline |-> YELLOW,
                start |-> FAdd(_percent_to_degrees(red), FInt(START_ANGLE)),
                extent |-> _percent_to_degrees(yellow)]>>
        ELSE <<>>)
    \o (IF blue > 0
        THEN <<[outline |-> BLUE, start |-> FInt(EXTENT_ANGLE + START_ANGLE),
                extent |-> FSub(FInt(0), _percent_to_degrees(blue))]>>
        ELSE <<>>)

\* seeded fault: the bound is rounded down
py_int_floor(x) == x.n \div x.d

\* int(x) of Python for a fraction x: truncation toward zero
py_int(x) == IF x.n >= 0 THEN x.n \div x.d ELSE -((-x.n) \div x.d)

\* the text items created by _add_labels for the bounds lo and hi (fractions),
\* without `current`'s text, which is current_text; p is the palette
_add_labels(label, lo, hi, u, p) ==
    [label1       |-> [text |-> label, fill |-> p.text_color],
     min_value    |-> [text |-> <<py_int(lo), u>>, fill |-> p.text_color],
     max_value    |-> [text |-> <<py_int(hi), u>>, fill |-> p.text_color],
     current_fill |-> p.text_color]

\* seeded fault: the first wedge starts at angle 0
_add_wedges_from_zero(divisions_, p) ==
    [i \in 1..divisions_ |->
        [start   |-> FMul(FInt(i - 1), Frac(EXTENT_ANGLE, divisions_)),
         extent  |-> Frac(EXTENT_ANGLE, divisions_),
         outline |-> p.text_color]]

\* the tick wedges created by the loop of _add_gauge_lines
_add_wedges(divisions_, p) ==
    [i \in 1..divisions_ |->
        [start   |-> FAdd(FMul(FInt(i - 1), Frac(EXTENT_ANGLE, divisions_)),
                          FInt(START_ANGLE)),
         extent  |-> Frac(EXTENT_ANGLE, divisions_),
         outline |-> p.text_color]]

\* the hub created by _add_inset
_add_inset(p) ==
    [inset        |-> [fill |-> p.text_color, outline |-> p.text_color],
     inset_border |-> [outline |-> p.meter_color]]

\* seeded fault: the needle is turned by the angle's offset from the rest
\* position instead of being set to the angle
_update_meter_line_relative(angle, v) ==
    [meter |-> [meter EXCEPT
                  !.start = FAdd(meter.start,
                                 FSub(angle, FInt(EXTENT_ANGLE + START_ANGLE)))],
     current_text |-> <<v, unit>>]

\* _update_meter_line: move the needle and rewrite the current-value label;
\* v is self.var.get()
_update_meter_line(angle, v) ==
    [meter |-> [meter EXCEPT !.start = angle], current_text |-> <<v, unit>>]

\* seeded fault: the red comparison is >= instead of >
needle_color_red_inclusive(pct) ==
    LET pct100 == FMul(pct, FInt(100))
    IN  IF FLt(pct100, FInt(range.blue)) THEN palette.meter_blue
        ELSE IF ~FLt(pct100, FInt(100 - range.red)) THEN palette.meter_red
        ELSE IF FGt(pct100, FInt(100 - range.red - range.yellow))
             THEN palette.meter_yellow
        ELSE palette.meter_color

\* seeded fault: a value on the lower edge of the yellow zone counts as yellow
needle_color_yellow_inclusive(pct) ==
    LET pct100 == FMul(pct, FInt(100))
    IN  IF FLt(pct100, FInt(range.blue)) THEN palette.meter_blue
        ELSE IF FGt(pct100, FInt(100 - range.red)) THEN palette.meter_red
        ELSE IF ~FLt(pct100, FInt(100 - range.red - range.yellow))
             THEN palette.meter_yellow
        ELSE palette.meter_color

\* seeded fault: the blue comparison is <= instead of <
needle_color_blue_inclusive(pct) ==
    LET pct100 == FMul(pct, FInt(100))
    IN  IF ~FGt(pct100, FInt(range.blue)) THEN palette.meter_blue
        ELSE IF FGt(pct100, FInt(100 - range.red)) THEN palette.meter_red
        ELSE IF FGt(pct100, FInt(100 - range.red - range.yellow))
             THEN palette.meter_yellow
        ELSE palette.meter_color

\* the if/elif chain of _update_meter: the needle colour for pct
needle_color(pct) ==
    LET pct100 == FMul(pct, FInt(100))
    IN  IF FLt(pct100, FInt(range.blue)) THEN palette.meter_blue
        ELSE IF FGt(pct100, FInt(100 - range.red)) THEN palette.meter_red
        ELSE IF FGt(pct100, FInt(100 - range.red - range.yellow))
             THEN palette.meter_yellow
        ELSE palette.meter_color

\* seeded fault: the angle grows with pct
needle_angle_increasing(pct) ==
    FAdd(FMul(pct, FInt(EXTENT_ANGLE)), FInt(START_ANGLE))

\* seeded fault: pct is clamped to [0, 1] before the angle is computed
needle_angle_clamped(pct) ==
    LET p == IF FLt(pct, FInt(0)) THEN FInt(0)
             ELSE IF FGt(pct, FInt(1)) THEN FInt(1) ELSE pct
    IN  FAdd(FMul(FSub(FInt(1), p), FInt(EXTENT_ANGLE)), FInt(START_ANGLE))

\* the last assignment of _update_meter: the needle angle for pct
needle_angle(pct) ==
    FAdd(FMul(FSub(FInt(1), pct), FInt(EXTENT_ANGLE)), FInt(START_ANGLE))

\* seeded fault: the trace goes on writing the needle and the label it holds
\* handles of after the canvas is destroyed
_update_meter_stale_handles(v) ==
    IF max_value - min_value = 0
    THEN [meter |-> meter, current_text |-> current_text, error |-> "ZeroDivisionError"]
    ELSE LET pct == Frac(v - min_value, max_value - min_value)
             c == needle_color(pct)
             line == _update_meter_line(needle_angle(pct), v)
         IN  [meter |-> [line.meter EXCEPT !.fill = c, !.outline = c],
              current_text |-> line.current_text,
              error |-> "none"]

\* _update_meter, the write trace of self.var, for the value v just written.
\* The division raises ZeroDivisionError when the range is empty, and the
\* canvas calls raise TclError once the canvas is destroyed; Tk's CallWrapper
\* reports an exception raised by a trace callback and the canvas keeps what
\* it showed.
_update_meter(v) ==
    IF max_value - min_value = 0
    THEN [meter |-> meter, current_text |-> current_text, error |-> "ZeroDivisionError"]
    ELSE IF phase = "destroyed"
    THEN [meter |-> meter, current_text |-> current_text, error |-> "TclError"]
    ELSE LET pct == Frac(v - min_value, max_value - min_value)
             c == needle_color(pct)
             line == _update_meter_line(needle_angle(pct), v)
         IN  [meter |-> [line.meter EXCEPT !.fill = c, !.outline = c],
              current_text |-> line.current_text,
              error |-> "none"]

\* set_value: self.var.set(value), which runs the write trace
set_value(value) ==
    /\ last_arg' = value
    /\ var' = value
    /\ LET r == _update_meter(value)
       IN  /\ meter' = r.meter
           /\ current_text' = r.current_text
           /\ last_error' = r.error

\* seeded fault: the theme update also puts the needle back to its rest angle
update_for_dark_mode_resets_needle(d) ==
    /\ dark' = d
    /\ palette' = check_dark_mode(d)
    /\ LET p == check_dark_mode(d)
       IN  /\ background' = p.background
           /\ labels' = [label1       |-> [labels.label1 EXCEPT !.fill = p.text_color],
                         min_value    |-> [labels.min_value EXCEPT !.fill = p.text_color],
                         max_value    |-> [labels.max_value EXCEPT !.fill = p.text_color],
                         current_fill |-> p.text_color]
           /\ meter' = [start |-> FInt(EXTENT_ANGLE + START_ANGLE),
                        fill |-> p.meter_color, outline |-> p.meter_color]
           /\ hub' = [inset        |-> [fill |-> p.text_color, outline |-> p.text_color],
                      inset_border |-> [outline |-> p.text_color]]
           /\ wedges' = [i \in DOMAIN wedges |->
                            [wedges[i] EXCEPT !.outline = p.text_color]]
           /\ last_error' = "none"

\* update_for_dark_mode under a theme whose darkness is d.  check_dark_mode
\* assigns the palette attributes of the object; the canvas calls that follow
\* raise TclError, from the first one on, once the canvas is destroyed.
update_for_dark_mode(d) ==
    /\ dark' = d
    /\ palette' = check_dark_mode(d)
    /\ IF phase = "destroyed"
       THEN /\ last_error' = "TclError"
            /\ UNCHANGED <<meter, labels, wedges, hub, background>>
       ELSE LET p == check_dark_mode(d)
            IN  /\ background' = p.background
                /\ labels' = [label1       |-> [labels.label1 EXCEPT !.fill = p.text_color],
                              min_value    |-> [labels.min_value EXCEPT !.fill = p.text_color],
                              max_value    |-> [labels.max_value EXCEPT !.fill = p.text_color],
                              current_fill |-> p.text_color]
                /\ meter' = [meter EXCEPT !.fill = p.meter_color,
                                          !.outline = p.meter_color]
                /\ hub' = [inset        |-> [fill |-> p.text_color, outline |-> p.text_color],
                           inset_border |-> [outline |-> p.text_color]]
                /\ wedges' = [i \in DOMAIN wedges |->
                                 [wedges[i] EXCEPT !.outline = p.text_color]]
                /\ last_error' = "none"

\* the state at the end of Meter.__init__ for keyword arguments cfg
MeterInit(cfg, d) ==
    /\ min_value = cfg.min_value
    /\ max_value = cfg.max_value
    /\ unit = cfg.unit
    /\ range = [blue |-> cfg.blue, yellow |-> cfg.yellow, red |-> cfg.red]
    /\ divisions = cfg.divisions
    /\ dark = d
    /\ palette = check_dark_mode(d)
    /\ var = 0
    /\ current_text = <<0, cfg.unit>>
    /\ kind = cfg.kind
    /\ background = check_dark_mode(d).background
    /\ labels = _add_labels(cfg.label, FInt(cfg.min_value), FInt(cfg.max_value), cfg.unit,
                            check_dark_mode(d))
    /\ wedges = _add_wedges(cfg.divisions, check_dark_mode(d))
    /\ arcs = _add_gauge_lines(cfg.red, cfg.yellow, cfg.blue)
    /\ hub = _add_inset(check_dark_mode(d))
    /\ meter = [start |-> FInt(EXTENT_ANGLE + START_ANGLE),
                fill |-> check_dark_mode(d).meter_color,
                outline |-> check_dark_mode(d).meter_color]
    /\ last_error = "none"
    /\ last_arg = 0
    /\ same_again = FALSE

\* a plain Meter binds no click handler and has no tooltip
NoBindings ==
    /\ click_bound = FALSE
    /\ cursor = ""
    /\ tooltip = FALSE

\* no application window, dialog or view is modelled along with the gauge
NoApp ==
    /\ app = [phase |-> "absent"]
    /\ modal = [phase |-> "absent"]
    /\ disk_dialog = [phase |-> "absent"]
    /\ view = [phase |-> "absent"]

\* the gauge is alone in its window
NoOthers ==
    /\ others = <<>>
    /\ other_timers = {}

NoPolling ==
    /\ update_job = None
    /\ timers = {}
    /\ after_seq = 1
    /\ calls = <<>>
    /\ ticks = 0
    /\ provider_failed = FALSE

Init ==
    /\ \E cfg \in MeterConfigs, d \in BOOLEAN : MeterInit(cfg, d)
    /\ NoPolling
    /\ NoBindings
    /\ NoOthers
    /\ NoApp
    /\ phase = "alive"
    /\ last_op = "init"

\* seeded fault: every set_value draws the colour scale arcs again
SetValue_redraws_scale ==
    /\ phase = "alive"
    /\ \E v \in Values :
          /\ set_value(v)
          /\ same_again' = (last_op = "set_value" /\ v = last_arg)
    /\ last_op' = "set_value"
    /\ arcs' = arcs \o _add_gauge_lines(range.red, range.yellow, range.blue)
    /\ UNCHANGED <<phase, dark, palette, min_value, max_value, unit, range,
                   divisions, kind,
                   decor_vars, click_vars, other_vars, app_vars, poll_vars>>

SetValue ==
    /\ phase = "alive"
    /\ \E v \in Values :
          /\ set_value(v)
          /\ same_again' = (last_op = "set_value" /\ v = last_arg)
    /\ last_op' = "set_value"
    /\ UNCHANGED <<phase, dark, palette, config_vars, decor_vars, click_vars, other_vars, app_vars, poll_vars>>

UpdateForDarkMode ==
    /\ phase = "alive"
    /\ \E d \in BOOLEAN : update_for_dark_mode(d)
    /\ last_op' = "update_for_dark_mode"
    /\ same_again' = FALSE
    /\ UNCHANGED <<phase, var, current_text, last_arg, config_vars, click_vars,
                   other_vars, app_vars, poll_vars>>

Next == SetValue \/ UpdateForDarkMode

Spec == Init /\ [][Next]_vars

(***************************************************************************)
(* UpdatingMeter (widgets/meters/updating_meter.py).                       *)
(***************************************************************************)
GetCall(o) == [op |-> "get_value", ok |-> o.ok, val |-> o.val]
SetCall(v) == [op |-> "set_value", ok |-> TRUE, val |-> v]

\* self._update_job = self.after(REFRESH_INTERVAL, self.update_widget), with
\* `pending` the callbacks Tk holds when the call is made
after(pending) ==
    /\ update_job' = Some(after_seq)
    /\ timers' = pending \cup {after_seq}
    /\ after_seq' = after_seq + 1

\* seeded fault: set_value is skipped when the provider returns the value the
\* gauge already holds
update_widget_skip_same(o, pending) ==
    IF o.ok /\ o.val # var
    THEN /\ calls' = calls \o <<GetCall(o), SetCall(o.val)>>
         /\ set_value(o.val)
         /\ after(pending)
         /\ UNCHANGED provider_failed
    ELSE IF o.ok
    THEN /\ calls' = Append(calls, GetCall(o))
         /\ after(pending)
         /\ last_error' = "none"
         /\ UNCHANGED <<var, meter, current_text, last_arg, provider_failed>>
    ELSE /\ calls' = Append(calls, GetCall(o))
         /\ provider_failed' = TRUE
         /\ timers' = pending
         /\ last_error' = "ProviderError"
         /\ UNCHANGED <<var, meter, current_text, last_arg, update_job, after_seq>>

\* update_widget, with o what get_value does this time.  An exception of
\* get_value leaves update_widget before set_value and before after.
update_widget(o, pending) ==
    IF o.ok
    THEN /\ calls' = calls \o <<GetCall(o), SetCall(o.val)>>
         /\ set_value(o.val)
         /\ after(pending)
         /\ UNCHANGED provider_failed
    ELSE /\ calls' = Append(calls, GetCall(o))
         /\ provider_failed' = TRUE
         /\ timers' = pending
         /\ last_error' = "ProviderError"
         /\ UNCHANGED <<var, meter, current_text, last_arg, update_job, after_seq>>

\* seeded fault: the handle is dropped without after_cancel
on_destroy_forget ==
    /\ update_job' = None
    /\ UNCHANGED timers

\* on_destroy, the handler of <Destroy>
on_destroy ==
    IF update_job # None
    THEN /\ timers' = timers \ update_job
         /\ update_job' = None
    ELSE UNCHANGED <<timers, update_job>>

InitPoll ==
    /\ \E cfg \in PollConfigs, d \in BOOLEAN : MeterInit(cfg, d)
    /\ NoPolling
    /\ NoBindings
    /\ NoOthers
    /\ NoApp
    /\ phase = "constructing"
    /\ last_op = "init"

\* what a call of is_clickable can return: CpuMeter asks psutil.cpu_count() > 1
\* at every call, the other gauges inherit `return True`
is_clickable == IF kind = "cpu" THEN BOOLEAN ELSE {TRUE}

\* add_tooltip: a ToolTip is attached when is_clickable() returns c
add_tooltip(c) == tooltip' = c

\* the constructor of a gauge class, from the bindings of
\* UpdatingMeter.__init__ on: is_clickable() decides the click handler and the
\* cursor, then the first update_widget runs, and back in the subclass
\* add_tooltip calls is_clickable() again.  An exception of get_value
\* propagates out of the constructor before add_tooltip.
Construct ==
    /\ phase = "constructing"
    /\ \E c1 \in is_clickable, o \in Outcomes :
          /\ click_bound' = c1
          /\ cursor' = IF c1 THEN "hand2" ELSE ""
          /\ update_widget(o, timers)
          /\ IF o.ok
             THEN /\ \E c2 \in is_clickable : add_tooltip(c2)
                  /\ phase' = "alive"
             ELSE /\ tooltip' = FALSE
                  /\ phase' = "init_failed"
    /\ last_op' = "init"
    /\ UNCHANGED <<dark, palette, config_vars, decor_vars, other_vars, app_vars, ticks,
                   same_again>>

\* Tk runs a pending `after` callback: one refresh tick
TimerFire ==
    /\ ticks < MaxTicks
    /\ \E h \in timers, o \in Outcomes : update_widget(o, timers \ {h})
    /\ ticks' = ticks + 1
    /\ last_op' = "update_widget"
    /\ UNCHANGED <<phase, dark, palette, config_vars, decor_vars, click_vars,
                   other_vars, app_vars, same_again>>

\* seeded fault: the theme handler also schedules a refresh
_update_theme_reschedules(d) ==
    /\ update_for_dark_mode(d)
    /\ after(timers)
    /\ UNCHANGED <<var, current_text, last_arg, calls, ticks, provider_failed>>

\* _update_theme, the handler of <<ThemeChanged>>, under a theme whose
\* darkness is d
_update_theme(d) ==
    /\ update_for_dark_mode(d)
    /\ UNCHANGED <<var, current_text, last_arg, poll_vars>>

\* <<ThemeChanged>> reaches the live widget
ThemeChanged ==
    /\ phase = "alive"
    /\ \E d \in BOOLEAN : _update_theme(d)
    /\ last_op' = "update_for_dark_mode"
    /\ same_again' = FALSE
    /\ UNCHANGED <<phase, config_vars, click_vars, other_vars, app_vars>>

\* the widget is destroyed and <Destroy> runs on_destroy; on_destroy may also
\* be called again on the destroyed widget
Destroy ==
    /\ phase \in {"alive", "destroyed"}
    /\ on_destroy
    /\ phase' = "destroyed"
    /\ last_op' = "on_destroy"
    /\ last_error' = "none"
    /\ UNCHANGED <<dark, palette, var, meter, current_text, config_vars, decor_vars,
                   click_vars, other_vars, app_vars, after_seq, calls, ticks, provider_failed, last_arg, same_again>>

NextPoll == Construct \/ TimerFire \/ ThemeChanged \/ Destroy

SpecPoll == InitPoll /\ [][NextPoll]_vars

(***************************************************************************)
(* The polling gauge with callers that go on using it after its widget is  *)
(* destroyed: the object and its Tk variable outlive the canvas.           *)
(***************************************************************************)
\* set_value called on the gauge after its widget was destroyed
SetValueDestroyed ==
    /\ phase = "destroyed"
    /\ \E v \in ProviderValues : set_value(v)
    /\ last_op' = "set_value"
    /\ same_again' = FALSE
    /\ UNCHANGED <<phase, dark, palette, config_vars, decor_vars, click_vars, other_vars, app_vars, poll_vars>>

\* update_for_dark_mode called on the gauge after its widget was destroyed
UpdateForDarkModeDestroyed ==
    /\ phase = "destroyed"
    /\ \E d \in BOOLEAN : update_for_dark_mode(d)
    /\ last_op' = "update_for_dark_mode"
    /\ same_again' = FALSE
    /\ UNCHANGED <<phase, var, current_text, last_arg, config_vars, click_vars,
                   other_vars, app_vars, poll_vars>>

NextLife ==
    \/ Construct
    \/ TimerFire
    \/ ThemeChanged
    \/ Destroy
    \/ SetValueDestroyed
    \/ UpdateForDarkModeDestroyed

SpecLife == InitPoll /\ [][NextLife]_vars

(***************************************************************************)
(* A window with several polling gauges: the gauge modelled above and      *)
(* NumOthers more, each an object of its own with its own Tk variable and  *)
(* its own _update_job.  Tk runs one event handler at a time on the UI     *)
(* thread, and update_widget and on_destroy never enter the event loop, so *)
(* each handler is one step.  Handles come from the interpreter's counter. *)
(***************************************************************************)
\* the attributes of the gauge modelled in full, without its pending timers
this_gauge_vars == <<phase, min_value, max_value, unit, range, divisions, dark, palette, var,
                     meter, current_text, arcs, labels, wedges, hub, background,
                     kind, click_bound, cursor, tooltip, update_job, calls,
                     provider_failed, last_op, last_error, last_arg, same_again>>

\* update_widget of the other gauge g, with o what its get_value does: the
\* gauge's attributes, Tk's pending callbacks and handle counter afterwards
gauge_update_widget(g, o, pending) ==
    IF o.ok
    THEN [gauge  |-> [others[g] EXCEPT !.var = o.val, !.update_job = Some(after_seq)],
          timers |-> pending \cup {[h |-> after_seq, g |-> g]},
          seq    |-> after_seq + 1]
    ELSE [gauge  |-> [others[g] EXCEPT !.failed = TRUE],
          timers |-> pending,
          seq    |-> after_seq]

\* seeded fault: the handle is kept where every gauge finds it, and
\* on_destroy of one gauge cancels the refresh of all of them
gauge_on_destroy_cancels_all(g) ==
    [gauges |-> [k \in DOMAIN others |-> [others[k] EXCEPT !.update_job = None]],
     timers |-> {},
     own    |-> {}]

\* on_destroy of the other gauge g: it cancels the timer whose handle its
\* _update_job holds.  The result is the gauges' attributes and the callbacks
\* Tk holds afterwards, for the other gauges (timers) and for the gauge
\* modelled in full (own).
gauge_on_destroy(g) ==
    IF others[g].update_job # None
    THEN [gauges |-> [others EXCEPT ![g].update_job = None],
          timers |-> {t \in other_timers : t.h \notin others[g].update_job},
          own    |-> timers \ others[g].update_job]
    ELSE [gauges |-> others, timers |-> other_timers, own |-> timers]

InitWindow ==
    /\ \E cfg \in {c \in PollConfigs : c.kind = "temp"} : MeterInit(cfg, FALSE)
    /\ NoPolling
    /\ NoBindings
    /\ others = [g \in 1..NumOthers |->
                   [phase |-> "constructing", var |-> 0, update_job |-> None,
                    failed |-> FALSE]]
    /\ other_timers = {}
    /\ NoApp
    /\ phase = "constructing"
    /\ last_op = "init"

\* the constructor of the other gauge g
OtherConstruct ==
    \E g \in DOMAIN others, o \in Outcomes :
       /\ others[g].phase = "constructing"
       /\ LET r == gauge_update_widget(g, o, other_timers)
          IN  /\ others' = [others EXCEPT
                              ![g] = [r.gauge EXCEPT
                                        !.phase = IF o.ok THEN "alive"
                                                  ELSE "init_failed"]]
              /\ other_timers' = r.timers
              /\ after_seq' = r.seq
       /\ UNCHANGED <<this_gauge_vars, timers, ticks, app_vars>>

\* Tk runs a pending refresh of another gauge
OtherTimerFire ==
    /\ ticks < MaxTicks
    /\ \E t \in other_timers, o \in Outcomes :
          LET r == gauge_update_widget(t.g, o, other_timers \ {t})
          IN  /\ others' = [others EXCEPT ![t.g] = r.gauge]
              /\ other_timers' = r.timers
              /\ after_seq' = r.seq
    /\ ticks' = ticks + 1
    /\ UNCHANGED <<this_gauge_vars, timers, app_vars>>

\* another gauge is destroyed
OtherDestroy ==
    \E g \in DOMAIN others :
       /\ others[g].phase = "alive"
       /\ LET r == gauge_on_destroy(g)
          IN  /\ others' = [r.gauges EXCEPT ![g].phase = "destroyed"]
              /\ other_timers' = r.timers
              /\ timers' = r.own
       /\ UNCHANGED <<this_gauge_vars, after_seq, ticks, app_vars>>

NextWindow ==
    \/ Construct
    \/ TimerFire
    \/ Destroy
    \/ OtherConstruct
    \/ OtherTimerFire
    \/ OtherDestroy

SpecWindow == InitWindow /\ [][NextWindow]_vars

(***************************************************************************)
(* The application window (application.py) and its settings dialog         *)
(* (modals/_base_modal.py, modals/settings_modal.py).  The window polls    *)
(* with update_screen; _on_restart destroys it and runs __init__ again on  *)
(* the same object, which makes a new Tk interpreter: `gen` counts the     *)
(* interpreters, and a pending callback is [gen, h].  event_generate runs  *)
(* the bound handler before it returns, so save_and_dismiss with all the   *)
(* handlers it triggers is one step.                                       *)
(***************************************************************************)
\* every variable of the gauge model
gauge_vars == <<this_gauge_vars, timers, after_seq, ticks, other_vars>>

LanguageChanged == "<<LanguageChanged>>"
FontChanged == "<<FontChanged>>"
SettingsChanged == "<<SettingsChanged>>"

\* self._update_job = self.after(REFRESH_INTERVAL, self.update_screen)
app_after(a) ==
    [a EXCEPT !.update_job = Some(a.seq),
              !.timers = @ \cup {[gen |-> a.gen, h |-> a.seq]},
              !.seq = @ + 1]

\* Application.update_screen; ok is whether every sensor read returns.  The
\* reads come first and are not guarded, so an exception leaves the method
\* before `after`.
app_update_screen(a, ok) ==
    IF ok THEN app_after(a) ELSE [a EXCEPT !.failed = TRUE]

\* Application.__init__ run again by _on_restart: a new interpreter,
\* _update_job = None, and the first update_screen
app_init(a, ok) ==
    app_update_screen([a EXCEPT !.gen = @ + 1, !.seq = 0, !.update_job = None], ok)

\* seeded fault: the pending refresh is not cancelled before the window is
\* destroyed
app_on_restart_no_cancel(a, ok) ==
    app_init([a EXCEPT !.restarts = @ + 1], ok)

\* Application._on_restart
app_on_restart(a, ok) ==
    LET b == IF a.update_job # None
             THEN [a EXCEPT !.timers = {t \in @ : ~(t.gen = a.gen /\ t.h \in a.update_job)},
                            !.update_job = None]
             ELSE a
    IN  app_init([b EXCEPT !.restarts = @ + 1], ok)

\* the handler bind_events binds to the event: _on_language and _on_restart
\* restart the window, apply_settings reads the settings again
app_handle_event(a, event, ok) ==
    IF event \in {LanguageChanged, FontChanged} THEN app_on_restart(a, ok) ELSE a

\* the loop of save_and_dismiss: event_generate on the parent for each event
\* in turn; oks are the outcomes of the sensor reads of each handler
RECURSIVE app_deliver(_, _, _)
app_deliver(a, events, oks) ==
    IF events = <<>> THEN a
    ELSE app_deliver(app_handle_event(a, Head(events), Head(oks)),
                     Tail(events), Tail(oks))

\* seeded fault: the event is appended although it is already registered
save_dismiss_event_keeps_duplicates(events, event_str) ==
    Append(events, event_str)

\* ModalDialog.save_dismiss_event on the list self._events
save_dismiss_event(events, event_str) ==
    IF \E i \in 1..Len(events) : events[i] = event_str
    THEN events
    ELSE Append(events, event_str)

\* SettingsDialog.generate_change_events: lang, regular and fixed tell
\* whether the language, the regular font and the fixed font were changed
generate_change_events(events, lang, regular, fixed) ==
    LET e1 == IF lang THEN save_dismiss_event(events, LanguageChanged) ELSE events
        e2 == IF regular THEN save_dismiss_event(e1, FontChanged) ELSE e1
        e3 == IF fixed THEN save_dismiss_event(e2, FontChanged) ELSE e2
    IN  save_dismiss_event(e3, SettingsChanged)

\* ModalDialog.dismiss: what it does, appended to the dialog's log
dismiss(log) == log \o <<"grab_release", "destroy">>

InitApp ==
    /\ \E cfg \in {c \in PollConfigs : c.kind = "disk"} : MeterInit(cfg, FALSE)
    /\ NoPolling
    /\ NoBindings
    /\ NoOthers
    /\ phase = "alive"
    /\ last_op = "init"
    /\ app = [phase |-> "constructing", gen |-> 1, update_job |-> None,
              timers |-> {}, seq |-> 0, restarts |-> 0, ticks |-> 0,
              stale_runs |-> 0, failed |-> FALSE]
    /\ modal = [phase |-> "closed", events |-> <<>>, log |-> <<>>,
                changes |-> [lang |-> FALSE, regular |-> FALSE, fixed |-> FALSE]]
    /\ disk_dialog = [phase |-> "absent"]
    /\ view = [phase |-> "absent"]

\* the end of the first Application.__init__: update_screen; an exception
\* ends the program
AppConstruct ==
    /\ app.phase = "constructing"
    /\ \E ok \in BOOLEAN :
          app' = [app_update_screen(app, ok) EXCEPT
                    !.phase = IF ok THEN "running" ELSE "crashed"]
    /\ UNCHANGED <<gauge_vars, modal, disk_dialog, view>>

\* Tk runs a pending update_screen callback.  The callback is a bound method
\* of the one Application object, whichever interpreter held it.
AppTimerFire ==
    /\ app.phase = "running"
    /\ app.ticks < MaxTicks
    /\ \E t \in app.timers, ok \in BOOLEAN :
          app' = app_update_screen(
                    [app EXCEPT !.timers = @ \ {t},
                                !.ticks = @ + 1,
                                !.stale_runs = @ + (IF t.gen # app.gen THEN 1 ELSE 0)],
                    ok)
    /\ UNCHANGED <<gauge_vars, modal, disk_dialog, view>>

\* Restart from the menu or Control-r, while no dialog holds the grab
MenuRestart ==
    /\ app.phase = "running"
    /\ modal.phase # "open"
    /\ app.restarts < MaxRestarts
    /\ \E ok \in BOOLEAN : app' = app_on_restart(app, ok)
    /\ UNCHANGED <<gauge_vars, modal, disk_dialog, view>>

\* _on_settings opens the SettingsDialog: ModalDialog.__init__ up to
\* wait_window
OpenSettings ==
    /\ app.phase = "running"
    /\ modal.phase # "open"
    /\ modal' = [phase |-> "open", events |-> <<>>, log |-> <<>>,
                 changes |-> [lang |-> FALSE, regular |-> FALSE, fixed |-> FALSE]]
    /\ UNCHANGED <<gauge_vars, app, disk_dialog, view>>

\* save_and_dismiss of the SettingsDialog: on_save (update_settings and
\* generate_change_events), dismiss, then the events on the parent
SaveAndDismiss ==
    /\ modal.phase = "open"
    /\ app.restarts + 2 <= MaxRestarts
    /\ \E lang, regular, fixed \in BOOLEAN, oks \in [1..3 -> BOOLEAN] :
          LET events == generate_change_events(modal.events, lang, regular, fixed)
              saved == Append(modal.log, "on_save")
              generated == [i \in 1..Len(events) |-> <<"event_generate", events[i]>>]
          IN  /\ modal' = [phase |-> "saved", events |-> events,
                           log |-> dismiss(saved) \o generated,
                           changes |-> [lang |-> lang, regular |-> regular,
                                        fixed |-> fixed]]
              /\ app' = app_deliver(app, events, oks)
    /\ UNCHANGED <<gauge_vars, disk_dialog, view>>

\* dismiss of the SettingsDialog: Cancel, Escape or the window's close button
Dismiss ==
    /\ modal.phase = "open"
    /\ modal' = [modal EXCEPT !.phase = "dismissed", !.log = dismiss(@)]
    /\ UNCHANGED <<gauge_vars, app, disk_dialog, view>>

NextApp ==
    \/ AppConstruct
    \/ AppTimerFire
    \/ MenuRestart
    \/ OpenSettings
    \/ SaveAndDismiss
    \/ Dismiss

SpecApp == InitApp /\ [][NextApp]_vars

(***************************************************************************)
(* DiskUsageDialog (modals/disk_usage_modal.py).  ModalDialog.__init__     *)
(* creates self.internal_frame once, then calls create_widgets and         *)
(* update_screen.  sys is the set of mount points the system has.          *)
(***************************************************************************)
\* the mount points a system can have, in the order disk_partitions lists them
AllMounts == <<"/", "/home", "/media/usb">>

\* psutil.disk_partitions() as mount points, for the system's mounts
disk_partitions(sys) == SelectSeq(AllMounts, LAMBDA m : m \in sys)

\* the elements of a sequence
Elems(q) == {q[i] : i \in 1..Len(q)}

\* create_widgets: the lists are rebuilt from disk_partitions, then the
\* widgets are created in self.internal_frame, which raises TclError when
\* that frame is destroyed
disk_create_widgets(d) ==
    IF d.frame_alive
    THEN [d EXCEPT !.mounts = disk_partitions(d.sys),
                   !.rows = disk_partitions(d.sys),
                   !.error = "none"]
    ELSE [d EXCEPT !.mounts = disk_partitions(d.sys),
                   !.rows = <<>>,
                   !.error = "TclError"]

\* self._update_job = self.after(REFRESH_INTERVAL, self.update_screen)
disk_after(d) ==
    [d EXCEPT !.update_job = Some(d.seq), !.timers = @ \cup {d.seq}, !.seq = @ + 1]

\* reset: cancel the pending refresh, destroy internal_frame, create_widgets,
\* update_screen.  An exception of create_widgets leaves reset; otherwise the
\* lists were just read from the system, so update_screen finds no new and no
\* missing mount point and schedules the refresh.
disk_reset(d) ==
    LET c == IF d.update_job # None
             THEN [d EXCEPT !.timers = @ \ d.update_job, !.update_job = None]
             ELSE d
        w == disk_create_widgets([c EXCEPT !.frame_alive = FALSE, !.rows = <<>>])
    IN  IF w.error # "none" THEN w ELSE disk_after(w)

\* check_mount_points: a mount point of the system is not listed
check_mount_points(d) == \E m \in d.sys : m \notin Elems(d.mounts)

\* update_screen: disk_usage raises FileNotFoundError for a listed mount
\* point the system no longer has
disk_update_screen(d) ==
    IF check_mount_points(d) THEN disk_reset(d)
    ELSE IF \E m \in Elems(d.mounts) : m \notin d.sys THEN disk_reset(d)
    ELSE disk_after([d EXCEPT !.error = "none"])

InitDisk ==
    /\ \E cfg \in {c \in PollConfigs : c.kind = "disk"} : MeterInit(cfg, FALSE)
    /\ NoPolling
    /\ NoBindings
    /\ NoOthers
    /\ phase = "alive"
    /\ last_op = "init"
    /\ app = [phase |-> "absent"]
    /\ modal = [phase |-> "absent"]
    /\ view = [phase |-> "absent"]
    /\ \E sys \in SUBSET Elems(AllMounts) :
          disk_dialog = [phase |-> "constructing", sys |-> sys, mounts |-> <<>>,
                         rows |-> <<>>, frame_alive |-> TRUE, update_job |-> None,
                         timers |-> {}, seq |-> 0, ticks |-> 0, error |-> "none"]

\* ModalDialog.__init__ from create_widgets on
DiskConstruct ==
    /\ disk_dialog.phase = "constructing"
    /\ disk_dialog' = [disk_update_screen(disk_create_widgets(disk_dialog))
                         EXCEPT !.phase = "open"]
    /\ UNCHANGED <<gauge_vars, app, modal, view>>

\* Tk runs the pending update_screen callback of the dialog
DiskTimerFire ==
    /\ disk_dialog.phase = "open"
    /\ disk_dialog.ticks < MaxTicks
    /\ \E t \in disk_dialog.timers :
          disk_dialog' = disk_update_screen(
                            [disk_dialog EXCEPT !.timers = @ \ {t}, !.ticks = @ + 1])
    /\ UNCHANGED <<gauge_vars, app, modal, view>>

\* a drive is mounted or unmounted while the dialog is open
MountChange ==
    /\ disk_dialog.phase = "open"
    /\ \E sys \in SUBSET Elems(AllMounts) :
          /\ sys # disk_dialog.sys
          /\ disk_dialog' = [disk_dialog EXCEPT !.sys = sys]
    /\ UNCHANGED <<gauge_vars, app, modal, view>>

NextDisk == DiskConstruct \/ DiskTimerFire \/ MountChange

SpecDisk == InitDisk /\ [][NextDisk]_vars

(***************************************************************************)
(* The three views of the disk usage: the DiskMeter needle, the label      *)
(* style of DiskUsageDialog and the colour of the command-line monitor.    *)
(* The usage is drawn at the start and each view classifies it on its own. *)
(***************************************************************************)
\* the percentages psutil.disk_usage reports
DiskUsages == 0..100

\* DiskUsageDialog._get_alert_style
_get_alert_style(usage) ==
    IF usage >= DISK_ALERT_LEVEL THEN "Alert.TLabel"
    ELSE IF usage >= DISK_WARN_LEVEL THEN "Warn.TLabel"
    ELSE "Safe.TLabel"

\* cli_monitor._get_usage_color
_get_usage_color(percent) ==
    IF percent > DISK_ALERT_LEVEL THEN "bright_red"
    ELSE IF percent > DISK_WARN_LEVEL THEN "bright_yellow"
    ELSE "bright_green"

InitView ==
    /\ \E cfg \in PollConfigs, d \in BOOLEAN : MeterInit(cfg, d)
    /\ NoPolling
    /\ NoBindings
    /\ NoOthers
    /\ phase = "alive"
    /\ last_op = "init"
    /\ app = [phase |-> "absent"]
    /\ modal = [phase |-> "absent"]
    /\ disk_dialog = [phase |-> "absent"]
    /\ \E u \in DiskUsages :
          view = [phase |-> "watching", usage |-> u, meter |-> FALSE,
                  style |-> "", cli |-> ""]

\* the gauge is given the reading: set_value(get_value()) of update_widget
ViewMeter ==
    /\ phase = "alive"
    /\ view.phase = "watching"
    /\ set_value(view.usage)
    /\ same_again' = (last_op = "set_value" /\ view.usage = last_arg)
    /\ last_op' = "set_value"
    /\ view' = [view EXCEPT !.meter = TRUE]
    /\ UNCHANGED <<phase, dark, palette, config_vars, decor_vars, click_vars,
                   other_vars, app, modal, disk_dialog, poll_vars>>

\* the dialog styles the row of the mount point
ViewDialog ==
    /\ view.phase = "watching"
    /\ view' = [view EXCEPT !.style = _get_alert_style(view.usage)]
    /\ UNCHANGED <<gauge_vars, app, modal, disk_dialog>>

\* the command-line monitor colours its disk usage bar
ViewCli ==
    /\ view.phase = "watching"
    /\ view' = [view EXCEPT !.cli = _get_usage_color(view.usage)]
    /\ UNCHANGED <<gauge_vars, app, modal, disk_dialog>>

NextView == ViewMeter \/ ViewDialog \/ ViewCli

SpecView == InitView /\ [][NextView]_vars

(***************************************************************************)
(* A plain Meter built with any number of divisions.                       *)
(***************************************************************************)
\* the values given to divisions=
Divisions == 1..MaxDivisions

ScaleConfigs ==
    {[kind |-> "meter", label |-> "", divisions |-> n,
      min_value |-> r[1], max_value |-> r[2], unit |-> "%",
      blue |-> 0, yellow |-> 15, red |-> 15] :
        n \in Divisions, r \in {<<0, 100>>, <<-10, 10>>}}

InitScale ==
    /\ \E cfg \in ScaleConfigs, d \in BOOLEAN : MeterInit(cfg, d)
    /\ NoPolling
    /\ NoBindings
    /\ NoOthers
    /\ NoApp
    /\ phase = "alive"
    /\ last_op = "init"

NextScale == SetValue \/ UpdateForDarkMode

SpecScale == InitScale /\ [][NextScale]_vars

(***************************************************************************)
(* The min/max labels of a Meter built with bounds that are not whole      *)
(* numbers: the bounds are drawn at the start and _add_labels formats them.*)
(***************************************************************************)
\* the bounds given to min_value= and max_value=, in halves
HalfBounds == {Frac(k, 2) : k \in (-MaxHalves)..MaxHalves}

InitLabels ==
    /\ \E cfg \in {c \in PollConfigs : c.kind = "cpu"} : MeterInit(cfg, FALSE)
    /\ NoPolling
    /\ NoBindings
    /\ NoOthers
    /\ phase = "alive"
    /\ last_op = "init"
    /\ app = [phase |-> "absent"]
    /\ modal = [phase |-> "absent"]
    /\ disk_dialog = [phase |-> "absent"]
    /\ \E lo \in HalfBounds, hi \in HalfBounds, u \in {"%", "C"} :
          view = [phase |-> "constructing", min_value |-> lo, max_value |-> hi,
                  unit |-> u, labels |-> None]

\* Meter.__init__ reaches self._add_labels(label, unit)
AddLabels ==
    /\ view.phase = "constructing"
    /\ view' = [view EXCEPT
                  !.phase = "labelled",
                  !.labels = Some(_add_labels("", view.min_value, view.max_value,
                                              view.unit, check_dark_mode(FALSE)))]
    /\ UNCHANGED <<gauge_vars, app, modal, disk_dialog>>

NextLabels == AddLabels

SpecLabels == InitLabels /\ [][NextLabels]_vars

(***************************************************************************)
(* Properties.                                                             *)
(***************************************************************************)
\* the zone class a needle colour stands for, in either palette
ZoneOf(c) ==
    IF c \in {check_dark_mode(d).meter_blue : d \in BOOLEAN} THEN "blue"
    ELSE IF c \in {check_dark_mode(d).meter_red : d \in BOOLEAN} THEN "red"
    ELSE IF c \in {check_dark_mode(d).meter_yellow : d \in BOOLEAN} THEN "yellow"
    ELSE IF c \in {check_dark_mode(d).meter_color : d \in BOOLEAN} THEN "neutral"
    ELSE "other"

\* the GaugeConfig invariant of the data model
ValidRange == min_value < max_value

\* C1: for an UpdatingMeter whose provider has never failed and that is not
\* destroyed, after construction and N timer firings the log holds exactly
\* N+1 get_value calls and N+1 set_value calls, alternating, each set_value
\* carrying the result of the get_value before it.
C1_RefreshScheduling ==
    (phase = "alive" /\ ~provider_failed) =>
        /\ Len(calls) = 2 * (ticks + 1)
        /\ \A i \in 1..(ticks + 1) :
              /\ calls[2 * i - 1].op = "get_value"
              /\ calls[2 * i - 1].ok
              /\ calls[2 * i].op = "set_value"
              /\ calls[2 * i].val = calls[2 * i - 1].val

C1_Witness ==
    /\ phase = "alive"
    /\ ~provider_failed
    /\ ticks = 2
    /\ Len(calls) = 6
    /\ calls[5].val = calls[3].val

\* C2: once on_destroy has run, no refresh is pending and the stored handle
\* is None; from then on no step (a timer firing, a second on_destroy) calls
\* get_value or changes the handle, the timers or the gauge.
C2_TeardownCancels ==
    /\ [](phase = "destroyed" => (update_job = None /\ timers = {}))
    /\ [][phase = "destroyed" =>
            UNCHANGED <<calls, ticks, update_job, timers, after_seq, var, meter,
                        current_text>>]_vars

C2_Witness ==
    /\ phase = "destroyed"
    /\ ticks >= 1
    /\ Len(calls) >= 4
    /\ update_job = None
    /\ timers = {}

\* C3: every refresh tick of a gauge that is not destroyed schedules a
\* successor, so the refresh loop never stops by itself.
C3_TickSchedulesSuccessor ==
    [][(phase = "alive" /\ ticks' = ticks + 1) =>
          (update_job' # None /\ update_job' \subseteq timers')]_vars

\* the needle colour rule of C4, with pct*100 compared exactly
C4_Rule ==
    LET D == max_value - min_value
        p == (var - min_value) * 100
        zone == IF p < range.blue * D THEN "blue"
                ELSE IF p > (100 - range.red) * D THEN "red"
                ELSE IF p > (100 - range.red - range.yellow) * D THEN "yellow"
                ELSE "neutral"
    IN  /\ ZoneOf(meter.fill) = zone
        /\ meter.outline = meter.fill
        /\ meter.fill \in {palette.meter_blue, palette.meter_red,
                           palette.meter_yellow, palette.meter_color}

\* the examples of C4: range [0,100], zones 15/15/15, with `at90` the colour
\* expected for the value 90
C4_Examples(at90) ==
    (min_value = 0 /\ max_value = 100
        /\ range = [blue |-> 15, yellow |-> 15, red |-> 15]) =>
        /\ var = 10 => ZoneOf(meter.fill) = "blue"
        /\ var = 50 => ZoneOf(meter.fill) = "neutral"
        /\ var = 85 => ZoneOf(meter.fill) = "yellow"
        /\ var = 90 => ZoneOf(meter.fill) = at90
        /\ var = 95 => ZoneOf(meter.fill) = "red"

\* C4 as amended: after set_value on a gauge with min < max the needle is
\* blue if pct*100 < blue, else red if pct*100 > 100 - red, else yellow if
\* pct*100 > 100 - red - yellow, else neutral; with range [0,100] and zones
\* 15/15/15 the values 10, 50, 85, 90, 95 give blue, neutral, yellow, red, red.
C4_NeedleColour ==
    (last_op = "set_value" /\ ValidRange) => (C4_Rule /\ C4_Examples("red"))

\* C4 as stated: the same rule, with the value 90 giving yellow.
C4_AsStated ==
    (last_op = "set_value" /\ ValidRange) => (C4_Rule /\ C4_Examples("yellow"))

C4_Witness ==
    /\ last_op = "set_value"
    /\ min_value = 0 /\ max_value = 100
    /\ range = [blue |-> 15, yellow |-> 15, red |-> 15]
    /\ var = 90
    /\ ZoneOf(meter.fill) = "red"

\* C5: after set_value(v) on a gauge with min < max the needle angle is
\* (1 - pct)*108 + 36 with pct = (v - min)/(max - min): 144 at v = min, 36 at
\* v = max, 90 at the midpoint, and strictly decreasing in v over [min, max].
C5_NeedleAngle ==
    (last_op = "set_value" /\ ValidRange) =>
        LET D == max_value - min_value
        IN  /\ meter.start.n * D = meter.start.d * ((max_value - var) * 108 + 36 * D)
            /\ var = min_value => meter.start = FInt(144)
            /\ var = max_value => meter.start = FInt(36)
            /\ 2 * var = min_value + max_value => meter.start = FInt(90)
            /\ \A v1, v2 \in Values :
                  (min_value <= v1 /\ v1 < v2 /\ v2 <= max_value) =>
                      FLt(_update_meter(v2).meter.start, _update_meter(v1).meter.start)

C5_Witness ==
    /\ last_op = "set_value"
    /\ ValidRange
    /\ 2 * var = min_value + max_value
    /\ meter.start = FInt(90)

\* C6: a set_value(x) directly after a set_value(x) leaves the current value,
\* the needle (angle and colour) and the current-value label as they were.
C6_Idempotent ==
    [][(last_op = "set_value" /\ last_op' = "set_value" /\ last_arg' = last_arg) =>
          UNCHANGED <<var, meter, current_text>>]_vars

C6_Witness ==
    /\ same_again
    /\ last_op = "set_value"
    /\ var = 85
    /\ ZoneOf(meter.fill) = "yellow"

\* C7: a gauge with min_value >= max_value is not created, so no set_value
\* ever divides by max_value - min_value = 0.
C7_ConstructionFailsFast ==
    /\ ~ValidRange => phase # "alive"
    /\ last_error # "ZeroDivisionError"

\* C8: after a refresh tick in which get_value raised, set_value was skipped
\* and the next refresh is pending.
C8_FailedTickReschedules ==
    (phase = "alive" /\ last_op = "update_widget" /\ last_error = "ProviderError") =>
        /\ calls[Len(calls)].op = "get_value"
        /\ update_job # None
        /\ update_job \subseteq timers

\* C9: on a gauge with min < max, set_value takes a value outside [min, max]
\* without error and without clamping: below min the needle angle is above
\* 144, above max it is below 36, and the stored and displayed value is the
\* value passed in.
C9_OutOfRangePassThrough ==
    (last_op = "set_value" /\ ValidRange) =>
        /\ last_error = "none"
        /\ var = last_arg
        /\ current_text = <<last_arg, unit>>
        /\ var < min_value => FGt(meter.start, FInt(144))
        /\ var > max_value => FLt(meter.start, FInt(36))

C9_Witness ==
    /\ last_op = "set_value"
    /\ ValidRange
    /\ last_arg > max_value
    /\ FLt(meter.start, FInt(36))
    /\ current_text[1] = last_arg

\* C10: with blue = 0 no blue arc exists, and on a gauge with min < max whose
\* current value is >= min_value the needle is not blue.
C10_NoBlueZone ==
    range.blue = 0 =>
        /\ \A i \in 1..Len(arcs) : arcs[i].outline # BLUE
        /\ (ValidRange /\ var >= min_value) => ZoneOf(meter.fill) # "blue"

C10_Witness ==
    /\ range.blue = 0
    /\ ValidRange
    /\ last_op = "set_value"
    /\ var = min_value
    /\ ZoneOf(meter.fill) = "neutral"
    /\ Len(arcs) = 3

\* C11: a theme-changed notification on a live polling gauge runs
\* update_for_dark_mode (the palette and the colours follow the new theme) and
\* leaves the polling schedule alone: the handle in _update_job, the pending
\* timers and the stored value are unchanged, and get_value is not called.
C11_ThemeChangeKeepsSchedule ==
    [][last_op' = "update_for_dark_mode"
       => /\ UNCHANGED <<update_job, timers, after_seq, var, calls, ticks,
                         provider_failed>>
          /\ palette' = check_dark_mode(dark')
          /\ meter'.fill = palette'.meter_color
          /\ labels'.current_fill = palette'.text_color]_vars

\* a theme change has reached a gauge that has ticked and has its refresh pending
C11_Witness ==
    /\ phase = "alive"
    /\ last_op = "update_for_dark_mode"
    /\ ticks >= 1
    /\ update_job # None
    /\ update_job \subseteq timers
    /\ Cardinality(timers) = 1
    /\ Len(calls) >= 4

C13_OneTimerPending ==
    /\ phase = "alive" => (Cardinality(timers) = 1 /\ update_job = timers)
    /\ phase = "destroyed" => (timers = {} /\ update_job = None)

\* C14: in every state of a live gauge with min < max, from construction on,
\* the needle angle is START_ANGLE + (1 - pct) * EXTENT_ANGLE for the stored
\* value, and the current-value label shows the stored value with the unit.
C14_RenderingMatchesValue ==
    (phase = "alive" /\ ValidRange)
    => /\ meter.start = needle_angle(Frac(var - min_value, max_value - min_value))
       /\ current_text = <<var, unit>>

\* the needle shows the current palette's colour for the zone of the stored value
NeedleShowsZone ==
    LET c == needle_color(Frac(var - min_value, max_value - min_value))
    IN  meter.fill = c /\ meter.outline = c

\* C15: whatever set_value and update_for_dark_mode calls are made, the needle
\* has the current palette's colour for the zone of the stored value: a theme
\* change on a needle that shows its zone re-derives that zone's colour from
\* the new palette.
C15_ThemeKeepsZoneColour ==
    [][(phase = "alive" /\ ValidRange /\ NeedleShowsZone
        /\ last_op' = "update_for_dark_mode")
       => NeedleShowsZone']_vars

\* the zone class a colour scale arc stands for
ArcClass(outline) ==
    IF outline = BLUE THEN "blue"
    ELSE IF outline = RED THEN "red"
    ELSE IF outline = YELLOW THEN "yellow"
    ELSE IF outline = GREEN THEN "neutral"
    ELSE "other"

\* the arc a spans the angle
ArcCovers(a, angle) ==
    LET end == FAdd(a.start, a.extent)
    IN  IF FLt(a.extent, FInt(0))
        THEN ~FLt(angle, end) /\ ~FGt(angle, a.start)
        ELSE ~FLt(angle, a.start) /\ ~FGt(angle, end)

\* the class of the arc drawn last among those spanning the angle
TopArcAt(angle) ==
    LET I == {i \in 1..Len(arcs) : ArcCovers(arcs[i], angle)}
    IN  IF I = {} THEN "none"
        ELSE ArcClass(arcs[CHOOSE i \in I : \A j \in I : j <= i].outline)

\* pct * 100 of the stored value lies on one of the three zone thresholds
OnThreshold ==
    LET pct100 == FMul(Frac(var - min_value, max_value - min_value), FInt(100))
    IN  \E t \in {range.blue, 100 - range.red, 100 - range.red - range.yellow} :
           ~FLt(pct100, FInt(t)) /\ ~FGt(pct100, FInt(t))

\* C16: for a value within [min, max] that is on no threshold, with
\* yellow + red <= 100, the needle set_value paints has the zone class of the
\* topmost colour scale arc at the needle's angle; the red arc starts at the
\* angle of max_value with the yellow arc after it, and the blue arc runs
\* back from the angle of min_value.
C16_NeedleMatchesArc ==
    (phase = "alive" /\ ValidRange)
    => /\ (last_op = "set_value" /\ min_value <= var /\ var <= max_value
           /\ range.yellow + range.red <= 100 /\ ~OnThreshold)
          => TopArcAt(meter.start) = ZoneOf(meter.fill)
       /\ \A i \in 1..Len(arcs) :
             /\ arcs[i].outline = RED
                => /\ arcs[i].start = needle_angle(FInt(1))
                   /\ FGt(arcs[i].extent, FInt(0))
             /\ arcs[i].outline = YELLOW
                => /\ arcs[i].start
                        = FAdd(needle_angle(FInt(1)), _percent_to_degrees(range.red))
                   /\ FGt(arcs[i].extent, FInt(0))
             /\ arcs[i].outline = BLUE
                => /\ arcs[i].start = needle_angle(FInt(0))
                   /\ FLt(arcs[i].extent, FInt(0))

\* a value of the blue zone has been set on a gauge with all three zones
C16_Witness ==
    /\ phase = "alive"
    /\ last_op = "set_value"
    /\ min_value = 0 /\ max_value = 100
    /\ range = [blue |-> 15, yellow |-> 15, red |-> 15]
    /\ var = 10
    /\ ~OnThreshold
    /\ ZoneOf(meter.fill) = "blue"
    /\ TopArcAt(meter.start) = "blue"
    /\ Len(arcs) = 4

\* the number of items on the canvas: the four text items, the wedges, the
\* colour scale arcs, the needle, and the two hub items
ItemCount == 4 + Len(wedges) + Len(arcs) + 1 + 2

\* C17: set_value on a live gauge changes only the stored value, the needle
\* and the current-value text: no canvas item is created or deleted, and the
\* title, the min/max labels, the wedges, the colour scale arcs, the hub, the
\* palette and the configuration stay as they were.
C17_SetValueFrame ==
    [][(phase = "alive" /\ last_op' = "set_value")
       => /\ UNCHANGED <<labels, wedges, arcs, hub, background, palette, dark,
                         min_value, max_value, unit, range, phase>>
          /\ ItemCount' = ItemCount]_vars

\* a value has been set on a gauge with all its items drawn
C17_Witness ==
    /\ phase = "alive"
    /\ last_op = "set_value"
    /\ var = 50
    /\ current_text = <<50, unit>>
    /\ min_value = 20 /\ max_value = 120
    /\ labels.min_value.text = <<20, unit>>
    /\ labels.max_value.text = <<120, unit>>
    /\ Len(wedges) = 10
    /\ Len(arcs) = 4
    /\ ItemCount = 21

\* C18: update_for_dark_mode on a live gauge changes colours only: the stored
\* value, the needle angle, every label text, the number of canvas items, the
\* colour scale arcs and the geometry of the wedges stay as they were.
C18_ThemeUpdateFrame ==
    [][(phase = "alive" /\ last_op' = "update_for_dark_mode")
       => /\ UNCHANGED <<var, current_text, arcs, min_value, max_value, unit,
                         range, phase>>
          /\ meter'.start = meter.start
          /\ labels'.label1.text = labels.label1.text
          /\ labels'.min_value.text = labels.min_value.text
          /\ labels'.max_value.text = labels.max_value.text
          /\ ItemCount' = ItemCount
          /\ \A i \in DOMAIN wedges :
                /\ wedges'[i].start = wedges[i].start
                /\ wedges'[i].extent = wedges[i].extent]_vars

\* the theme went dark on a gauge whose needle is off its rest angle
C18_Witness ==
    /\ phase = "alive"
    /\ last_op = "update_for_dark_mode"
    /\ dark
    /\ var = 95
    /\ current_text = <<95, unit>>
    /\ min_value = 0 /\ max_value = 100
    /\ meter.start # FInt(EXTENT_ANGLE + START_ANGLE)
    /\ labels.current_fill = check_dark_mode(TRUE).text_color
    /\ hub.inset.fill = check_dark_mode(TRUE).text_color

\* C19: the clickable predicate is decided once at construction: on a live
\* gauge the hand cursor is set exactly when the click handler is bound, and
\* the tooltip is attached exactly when the click handler is bound.
C19_ClickableFrozen ==
    phase = "alive"
    => /\ (cursor = "hand2") = click_bound
       /\ tooltip = click_bound

\* the polling state of a gauge of the window, 0 being the gauge modelled in
\* full: its phase, its stored value, its handle and its pending timers
GaugeState(g) ==
    IF g = 0
    THEN <<phase, var, update_job, timers, meter, current_text>>
    ELSE <<others[g], {t \in other_timers : t.g = g}>>

\* the handles of the timers pending for gauge g
PendingHandles(g) ==
    IF g = 0 THEN timers ELSE {t.h : t \in {u \in other_timers : u.g = g}}

\* the handle gauge g holds
HandleOf(g) == IF g = 0 THEN update_job ELSE others[g].update_job

\* C20: with several polling gauges in one window, every handler step (a
\* whole tick, a constructor, a destroy) changes the value, the handle and
\* the pending timers of one gauge only, so a tick writes only its own
\* gauge and a destroy cancels only its own refresh; and no gauge ever holds
\* the handle of another gauge's pending timer.
C20_GaugesIsolated ==
    /\ [](\A g, k \in 0..NumOthers :
             g # k => HandleOf(g) \cap PendingHandles(k) = {})
    /\ [][Cardinality({g \in 0..NumOthers : GaugeState(g)' # GaugeState(g)}) <= 1]_vars

\* the other gauge has refreshed and is destroyed, its timer gone, and the
\* gauge modelled in full is alive after a tick with its own refresh pending
C20_Witness ==
    /\ others[1].phase = "destroyed"
    /\ others[1].var = 90
    /\ PendingHandles(1) = {}
    /\ HandleOf(1) = None
    /\ phase = "alive"
    /\ last_op = "update_widget"
    /\ update_job = timers
    /\ Cardinality(timers) = 1
    /\ ticks >= 1

\* C21: after any sequence of restarts of the running application exactly
\* one update_screen refresh is pending, it belongs to the current window and
\* _update_job holds its handle, and no refresh scheduled by a window from
\* before a restart has run.
C21_OneRefreshAfterRestarts ==
    (app.phase = "running" /\ app.restarts >= 1)
    => /\ Cardinality(app.timers) = 1
       /\ \A t \in app.timers : t.gen = app.gen /\ app.update_job = Some(t.h)
       /\ app.stale_runs = 0

\* C22: an open DiskUsageDialog always has exactly one refresh pending, whose
\* handle _update_job holds, and shows a row for every listed mount point in
\* a live container frame, also after a mount point appeared or disappeared.
C22_DialogKeepsRefreshing ==
    disk_dialog.phase = "open"
    => /\ Cardinality(disk_dialog.timers) = 1
       /\ disk_dialog.update_job = disk_dialog.timers
       /\ disk_dialog.frame_alive
       /\ disk_dialog.rows = disk_dialog.mounts

\* the events a SettingsDialog is to generate for the changes made in it
ExpectedEvents(changes) ==
    (IF changes.lang THEN <<LanguageChanged>> ELSE <<>>)
    \o (IF changes.regular \/ changes.fixed THEN <<FontChanged>> ELSE <<>>)
    \o <<SettingsChanged>>

\* C23: save_and_dismiss calls on_save once, then destroys the dialog, then
\* generates on the parent each registered event once, in registration order,
\* an event registered twice being kept once; for the SettingsDialog that is
\* LanguageChanged if the language changed, FontChanged once if either font
\* changed, then SettingsChanged.  dismiss alone calls no on_save, generates
\* no event and leaves the application as it is.
C23_SaveThenEvents ==
    /\ [](modal.phase = "saved"
           => /\ modal.events = ExpectedEvents(modal.changes)
              /\ modal.log = <<"on_save", "grab_release", "destroy">>
                              \o [i \in 1..Len(modal.events) |->
                                     <<"event_generate", modal.events[i]>>])
    /\ [](modal.phase = "dismissed" => modal.log = <<"grab_release", "destroy">>)
    /\ [][(modal.phase = "open" /\ modal'.phase = "dismissed") => app' = app]_vars

\* a save with the language and both fonts changed has restarted the window
\* twice
C23_Witness ==
    /\ modal.phase = "saved"
    /\ modal.changes = [lang |-> TRUE, regular |-> TRUE, fixed |-> TRUE]
    /\ modal.events = <<LanguageChanged, FontChanged, SettingsChanged>>
    /\ Len(modal.log) = 6
    /\ app.restarts = 2
    /\ app.gen = 3

\* C24: update_for_dark_mode gives every theme-dependent item the current
\* palette's colour for the role it had at construction, so on a freshly
\* constructed gauge under an unchanged theme it alters no colour.
C24_ThemeUpdateKeepsRoles ==
    [][(phase = "alive" /\ last_op = "init" /\ last_op' = "update_for_dark_mode"
        /\ dark' = dark)
       => UNCHANGED <<meter, labels, wedges, hub, background, palette>>]_vars

\* the colours of the scale arcs a gauge with zones r is to have, in order
ExpectedArcColours(r) ==
    <<GREEN>>
    \o (IF r.red > 0 THEN <<RED>> ELSE <<>>)
    \o (IF r.yellow > 0 THEN <<YELLOW>> ELSE <<>>)
    \o (IF r.blue > 0 THEN <<BLUE>> ELSE <<>>)

\* C25: the green arc over the whole EXTENT_ANGLE is always there; the red,
\* yellow and blue arcs are there iff their percentage is > 0, each
\* EXTENT_ANGLE * pct / 100 degrees wide (the blue one laid backwards from
\* the far end); the yellow arc starts where the red one ends, also when
\* red = 0; and the creation order is green, red, yellow, blue.
C25_ScaleArcs ==
    /\ [i \in 1..Len(arcs) |-> arcs[i].outline] = ExpectedArcColours(range)
    /\ arcs[1] = [outline |-> GREEN, start |-> FInt(START_ANGLE),
                  extent |-> FInt(EXTENT_ANGLE)]
    /\ \A i \in 1..Len(arcs) :
          /\ arcs[i].outline = RED
             => /\ arcs[i].start = FInt(START_ANGLE)
                /\ arcs[i].extent = Frac(EXTENT_ANGLE * range.red, 100)
          /\ arcs[i].outline = YELLOW
             => /\ arcs[i].start
                     = FAdd(FInt(START_ANGLE), Frac(EXTENT_ANGLE * range.red, 100))
                /\ arcs[i].extent = Frac(EXTENT_ANGLE * range.yellow, 100)
          /\ arcs[i].outline = BLUE
             => /\ arcs[i].start = FInt(START_ANGLE + EXTENT_ANGLE)
                /\ arcs[i].extent
                     = FSub(FInt(0), Frac(EXTENT_ANGLE * range.blue, 100))

\* a gauge without a red zone: the yellow arc starts at START_ANGLE
C25_Witness ==
    /\ range = [blue |-> 50, yellow |-> 15, red |-> 0]
    /\ Len(arcs) = 3
    /\ arcs[2].outline = YELLOW
    /\ arcs[2].start = FInt(START_ANGLE)
    /\ arcs[3].outline = BLUE
    /\ last_op = "set_value"

\* C26: the four concrete meters have yellow + red <= 100 and
\* min_value < max_value, and the DiskMeter's zones follow the shared levels:
\* given a disk usage u in [0, 100] its needle is red iff u > 80, yellow iff
\* 60 < u <= 80, and neutral otherwise.
C26_ConcreteMeterZones ==
    /\ kind \in {"cpu", "temp", "ram", "disk"}
    /\ range.yellow + range.red <= 100
    /\ min_value < max_value
    /\ (kind = "disk" /\ view.meter)
       => LET u == view.usage
              z == ZoneOf(meter.fill)
          IN  /\ meter.outline = meter.fill
              /\ (z = "red") <=> (u > DISK_ALERT_LEVEL)
              /\ (z = "yellow") <=> (DISK_WARN_LEVEL < u /\ u <= DISK_ALERT_LEVEL)
              /\ (z = "neutral") <=> (u <= DISK_WARN_LEVEL)

\* the DiskMeter has been given a usage of exactly 80 and shows yellow
C26_Witness ==
    /\ kind = "disk"
    /\ view.meter
    /\ view.usage = DISK_ALERT_LEVEL
    /\ var = DISK_ALERT_LEVEL
    /\ ZoneOf(meter.fill) = "yellow"

\* the class (safe / warn / alert) each view gives the usage
MeterClass ==
    CASE ZoneOf(meter.fill) = "red" -> "alert"
      [] ZoneOf(meter.fill) = "yellow" -> "warn"
      [] ZoneOf(meter.fill) = "neutral" -> "safe"
      [] OTHER -> "other"
DialogClass ==
    CASE view.style = "Alert.TLabel" -> "alert"
      [] view.style = "Warn.TLabel" -> "warn"
      [] view.style = "Safe.TLabel" -> "safe"
      [] OTHER -> "other"
CliClass ==
    CASE view.cli = "bright_red" -> "alert"
      [] view.cli = "bright_yellow" -> "warn"
      [] view.cli = "bright_green" -> "safe"
      [] OTHER -> "other"

\* C27: once the DiskMeter, the DiskUsageDialog and the command-line monitor
\* have each shown the same disk usage in [0, 100], they give it the same
\* class, also at exactly 60 and exactly 80.
C27_ViewsAgree ==
    (kind = "disk" /\ view.meter /\ view.style # "" /\ view.cli # "")
    => /\ MeterClass = DialogClass
       /\ DialogClass = CliClass

\* C28: a gauge built with divisions = d > 0 has d wedges; wedge i
\* (0 <= i < d) starts at START_ANGLE + i * EXTENT_ANGLE / d and is
\* EXTENT_ANGLE / d wide, so each wedge ends where the next one starts, the
\* first starts at 36 and the last ends at 144 degrees; set_value leaves the
\* wedges alone and a theme update changes nothing of them but the outline.
C28_WedgesTile ==
    /\ [](/\ divisions > 0
          /\ Len(wedges) = divisions
          /\ \A i \in 0..(divisions - 1) :
                /\ wedges[i + 1].start
                     = FAdd(FInt(START_ANGLE), Frac(i * EXTENT_ANGLE, divisions))
                /\ wedges[i + 1].extent = Frac(EXTENT_ANGLE, divisions)
          /\ wedges[1].start = FInt(36)
          /\ \A i \in 1..(divisions - 1) :
                FAdd(wedges[i].start, wedges[i].extent) = wedges[i + 1].start
          /\ FAdd(wedges[divisions].start, wedges[divisions].extent) = FInt(144))
    /\ [][/\ last_op' = "set_value" => wedges' = wedges
          /\ Len(wedges') = Len(wedges)
          /\ \A i \in 1..Len(wedges) :
                /\ wedges'[i].start = wedges[i].start
                /\ wedges'[i].extent = wedges[i].extent]_vars

\* seven wedges, recoloured by a change of theme after a set_value
C28_Witness ==
    /\ divisions = 7
    /\ Len(wedges) = 7
    /\ wedges[7].extent = Frac(EXTENT_ANGLE, 7)
    /\ last_op = "update_for_dark_mode"
    /\ var # 0
    /\ wedges[7].outline # _add_wedges(7, check_dark_mode(~dark))[7].outline

\* floor(x) for a fraction x
Floor(x) == x.n \div x.d

\* C29 as stated: the min-value and max-value labels show floor(min_value)
\* and floor(max_value) followed by the unit, for every range, negative
\* bounds that are not whole numbers included.
C29_LabelsShowFloor ==
    \A l \in view.labels :
        /\ l.min_value.text = <<Floor(view.min_value), view.unit>>
        /\ l.max_value.text = <<Floor(view.max_value), view.unit>>

\* what the label of the bound x shows: x without its fractional part
Truncated(x) ==
    IF x.n >= 0 \/ x.d = 1 THEN Floor(x) ELSE Floor(x) + 1

\* C29, amended: the min-value and max-value labels show the bound cut off
\* toward zero, followed by the unit: floor(bound) for a bound >= 0 or a
\* whole number, and floor(bound) + 1 for a negative bound that is not a
\* whole number.
C29_LabelsTruncate ==
    \A l \in view.labels :
        /\ l.min_value.text = <<Truncated(view.min_value), view.unit>>
        /\ l.max_value.text = <<Truncated(view.max_value), view.unit>>

\* a gauge from -2.5 to -0.5 is labelled -2 and 0
C29_Witness ==
    /\ view.phase = "labelled"
    /\ view.min_value = Frac(-5, 2)
    /\ view.max_value = Frac(-1, 2)
    /\ \E l \in view.labels :
          /\ l.min_value.text = <<-2, view.unit>>
          /\ l.max_value.text = <<0, view.unit>>

====
